---- MODULE Spec2Model ----
(***************************************************************************)
(* pyHS100: the TP-Link Smart Home protocol (cipher, framing, the TCP      *)
(* query exchange, the UDP discovery sweep) and the command dispatcher     *)
(* SmartDevice._query_helper built on it.                                  *)
(*                                                                         *)
(* Bytes are integers 0..255; byte strings and character strings are       *)
(* sequences of them (decode('latin-1') maps byte n to code point n).      *)
(* JSON documents are functions from key strings to values.                *)
(***************************************************************************)
EXTENDS Integers, Sequences, FiniteSets, TLC

(***************************************************************************)
(* Bounds of the model.                                                    *)
(***************************************************************************)
\* longest request string given to encrypt in the codec specification
MaxLen == 3

\* the characters the codec specification draws request strings from
ByteSample == {0, 97, 171, 255}

\* the status codes a device reports lie in -MaxErrCode..MaxErrCode
MaxErrCode == 1

\* the most datagrams that arrive during one discovery sweep
MaxDatagrams == 3

(***************************************************************************)
(* Program constants.                                                      *)
(***************************************************************************)
INITIALIZATION_VECTOR == 171

\* the width of the length header written by struct.pack(">I", ...)
HeaderLen == 4

\* the largest chunk one sock.recv(4096) returns
RecvSize == 4096

(***************************************************************************)
(* Byte arithmetic.                                                        *)
(***************************************************************************)
RECURSIVE XorBits(_, _, _)
XorBits(a, b, n) ==
    IF n = 0 THEN 0
    ELSE (((a % 2) + (b % 2)) % 2) + 2 * XorBits(a \div 2, b \div 2, n - 1)

\* a ^ b on two bytes
Xor(a, b) == XorBits(a, b, 8)

\* struct.pack(">I", n): four bytes, most significant first
packLittleEndian(n) ==
    << n % 256, (n \div 256) % 256, (n \div 65536) % 256, (n \div 16777216) % 256 >>

pack(n) ==
    << (n \div 16777216) % 256, (n \div 65536) % 256, (n \div 256) % 256, n % 256 >>

\* struct.unpack(">I", b)[0] of a four-byte string b
unpack(b) == b[1] * 16777216 + b[2] * 65536 + b[3] * 256 + b[4]

\* s[n:] of a Python sequence (n >= 0)
DropFirst(s, n) == SubSeq(s, n + 1, Len(s))

\* s[0:n] of a Python sequence (n >= 0)
TakeFirst(s, n) == SubSeq(s, 1, IF Len(s) < n THEN Len(s) ELSE n)

\* bytearray.lstrip(b'\0'): the leading zero bytes removed
RECURSIVE lstripZero(_)
lstripZero(s) ==
    IF s /= << >> /\ Head(s) = 0 THEN lstripZero(Tail(s)) ELSE s

(***************************************************************************)
(* TPLinkSmartHomeProtocol.encrypt and decrypt.                            *)
(***************************************************************************)
\* the body of encrypt's for loop with the key fed from the plaintext
\* character instead of the cipher byte
RECURSIVE encryptLoopPlainKey(_, _, _)
encryptLoopPlainKey(request, key, buffer) ==
    IF request = << >> THEN buffer
    ELSE LET cipher == Xor(key, Head(request))
         IN  encryptLoopPlainKey(Tail(request), Head(request), Append(buffer, cipher))

\* for char in request: cipher = key ^ ord(char); key = cipher; append
RECURSIVE encryptLoop(_, _, _)
encryptLoop(request, key, buffer) ==
    IF request = << >> THEN buffer
    ELSE LET cipher == Xor(key, Head(request))
         IN  encryptLoop(Tail(request), cipher, Append(buffer, cipher))

encryptPlainKey(request) ==
    encryptLoopPlainKey(request, INITIALIZATION_VECTOR, pack(Len(request)))

encryptLittleEndian(request) ==
    encryptLoop(request, INITIALIZATION_VECTOR, packLittleEndian(Len(request)))

encrypt(request) ==
    encryptLoop(request, INITIALIZATION_VECTOR, pack(Len(request)))

\* for char in ciphertext: plain = key ^ ord(char); key = ord(char); append
RECURSIVE decryptLoop(_, _, _)
decryptLoop(ciphertext, key, buffer) ==
    IF ciphertext = << >> THEN buffer
    ELSE LET plain == Xor(key, Head(ciphertext))
         IN  decryptLoop(Tail(ciphertext), Head(ciphertext), Append(buffer, plain))

\* the body of decrypt's for loop with the key fed from the plaintext
\* character instead of the cipher byte
RECURSIVE decryptLoopPlainKey(_, _, _)
decryptLoopPlainKey(ciphertext, key, buffer) ==
    IF ciphertext = << >> THEN buffer
    ELSE LET plain == Xor(key, Head(ciphertext))
         IN  decryptLoopPlainKey(Tail(ciphertext), plain, Append(buffer, plain))

decryptPlainKey(ciphertext) ==
    decryptLoopPlainKey(ciphertext, INITIALIZATION_VECTOR, << >>)

decrypt(ciphertext) == decryptLoop(ciphertext, INITIALIZATION_VECTOR, << >>)

(***************************************************************************)
(* JSON documents: requests {target: {cmd: arg}} and the replies a device  *)
(* can send.  json.dumps / json.loads are modelled on this finite universe *)
(* of documents: every document has one text, and a text that is not the   *)
(* text of a document of the universe does not parse (ValueError).         *)
(***************************************************************************)
Targets == {"system", "emeter"}

Cmds == {"get_sysinfo", "get_realtime"}

ErrCodes == (0 - MaxErrCode)..MaxErrCode

\* the result objects of one command
CmdResults ==
    { [err_code |-> e, relay_state |-> 1] : e \in ErrCodes }
        \cup { [err_code |-> 0], [relay_state |-> 1] }

\* the objects a reply can hold under a target
TargetResults ==
    { c :> r : c \in Cmds, r \in CmdResults }
        \cup { [err_code |-> e, err_msg |-> "module not support"] :
                   e \in ErrCodes \ {0} }
        \cup { [err_code |-> 0, get_sysinfo |-> [err_code |-> 0]] }

\* the replies: one target each, and the empty object
Responses ==
    { t :> r : t \in Targets, r \in TargetResults } \cup { << >> }

RECURSIVE SetToSeq(_)
SetToSeq(S) ==
    IF S = {} THEN << >>
    ELSE LET x == CHOOSE y \in S : TRUE
         IN  << x >> \o SetToSeq(S \ {x})

ResponseSeq == SetToSeq(Responses)

KeyCode(k) ==
    CASE k = "system" -> 115
      [] k = "emeter" -> 101
      [] k = "get_sysinfo" -> 105
      [] k = "get_realtime" -> 114

\* json.dumps({target: {cmd: arg}}) of a request
RequestText(t, c) == << 123, KeyCode(t), KeyCode(c), 125 >>

\* the JSON text of a reply
ResponseText(doc) ==
    << 123, CHOOSE i \in 1..Len(ResponseSeq) : ResponseSeq[i] = doc, 125 >>

\* json.loads(text) succeeds
Parses(text) ==
    /\ Len(text) = 3
    /\ text[1] = 123
    /\ text[3] = 125
    /\ text[2] \in 1..Len(ResponseSeq)

\* json.loads(text) of a text that parses
jsonLoads(text) == ResponseSeq[text[2]]

\* the rolling-key ciphertext of a text, without length header
Cipher(text) == encryptLoop(text, INITIALIZATION_VECTOR, << >>)

(***************************************************************************)
(* State.                                                                  *)
(***************************************************************************)
VARIABLES
    \* the codec in isolation (tests/test_protocol.py and the callers' use)
    cpc,          \* "idle", "encrypted", "decrypted"
    c_request,    \* the request string handed to encrypt
    c_encrypted,  \* what encrypt returned
    c_input,      \* the byte string handed to decrypt
    c_decrypted,  \* what decrypt returned
    c_how         \* how c_input was obtained

codecVars == << cpc, c_request, c_encrypted, c_input, c_decrypted, c_how >>

VARIABLES
    \* SmartDevice._query_helper(target, cmd)
    dpc,          \* "idle", "query", "done"
    target,       \* the target of the call
    cmd,          \* the command of the call
    outcome,      \* "none", "returned", "raised"
    ret,          \* the mapping returned
    exc,          \* the exception raised: [type, cause, msg]
    \* TPLinkSmartHomeProtocol.query(host, request)
    qpc,          \* "idle", "connect", "send", "recv", "shutdown", "close",
                  \* "decrypt", "returned", "raised"
    sock,         \* "none", "open", "connected", "shutdown", "closed"
    sent,         \* the bytes given to sock.send
    buffer,       \* the bytes received so far
    length,       \* the declared length, -1 before the header is read
    chunk,        \* what the last sock.recv returned
    pending,      \* the exception in flight in query, "none" without one
    response,     \* what query returned
    \* the device at the other end of the connection
    stream,       \* the bytes it has still to deliver
    ending        \* what it does after them: "close", "hang", "reset"

helperVars == << dpc, target, cmd, outcome, ret, exc >>

queryVars == << qpc, sock, sent, buffer, length, chunk, pending, response >>

peerVars == << stream, ending >>

VARIABLES
    \* TPLinkSmartHomeProtocol.discover(timeout, port)
    vpc,          \* "idle", "sendto", "recvfrom", "returned", "raised"
    usock,        \* the UDP socket: "none", "open", "closed"
    devices,      \* the list of descriptors collected
    caught,       \* the exception that ended the loop, "none" before
    \* the network during the sweep
    arrivals,     \* the datagrams that reach the socket before the timeout
    received,     \* how many of them recvfrom has returned
    elapsed       \* the seconds discover has spent blocked in recvfrom

discoverVars == << vpc, usock, devices, caught, arrivals, received, elapsed >>

VARIABLES
    \* a SmartPlug, SmartBulb or SmartStrip used through an injected transport
    proto,        \* the device: the table FakeTransportProtocol.proto
    op,           \* the last operation called on the object, "none" before
    args,         \* its argument
    calls,        \* the requests it handed to protocol.query, in order
    out,          \* how it ended: [outcome, ret, exc]
    lastSwitch    \* the last event on the relay: "turn_on", "turn_off",
                  \* "other" (out-of-band), "none" before the first

deviceVars == << proto, op, args, calls, out, lastSwitch >>

vars ==
    << codecVars, helperVars, queryVars, peerVars, discoverVars, deviceVars >>

\* what a step of the codec leaves alone
notCodec == << helperVars, queryVars, peerVars, discoverVars, deviceVars >>

(***************************************************************************)
(* The codec specification: encrypt and decrypt applied to bounded inputs. *)
(***************************************************************************)
RECURSIVE StringsOfLen(_)
StringsOfLen(n) ==
    IF n = 0 THEN { << >> }
    ELSE { Append(s, b) : s \in StringsOfLen(n - 1), b \in ByteSample }

\* every string over ByteSample of at most MaxLen characters
ShortStrings == UNION { StringsOfLen(n) : n \in 0..MaxLen }

Strings == ShortStrings

CodecIdle ==
    /\ cpc = "idle"
    /\ c_request = << >>
    /\ c_encrypted = << >>
    /\ c_input = << >>
    /\ c_decrypted = << >>
    /\ c_how = "none"

NoException == [type |-> "none", cause |-> "none", msg |-> ""]

\* no _query_helper call and no query under way
HelperIdle ==
    /\ dpc = "idle"
    /\ target = "none"
    /\ cmd = "none"
    /\ outcome = "none"
    /\ ret = << >>
    /\ exc = NoException
    /\ qpc = "idle"
    /\ sock = "none"
    /\ sent = << >>
    /\ buffer = << >>
    /\ length = -1
    /\ chunk = << >>
    /\ pending = "none"
    /\ response = << >>
    /\ stream = << >>
    /\ ending = "none"

\* no discover call under way
DiscoverIdle ==
    /\ vpc = "idle"
    /\ usock = "none"
    /\ devices = << >>
    /\ caught = "none"
    /\ arrivals = << >>
    /\ received = 0
    /\ elapsed = 0

\* no device object in use
DeviceIdle ==
    /\ proto = << >>
    /\ op = "none"
    /\ args = << >>
    /\ calls = << >>
    /\ out = [outcome |-> "none", ret |-> << >>, exc |-> NoException]
    /\ lastSwitch = "none"

CodecInit ==
    /\ CodecIdle
    /\ HelperIdle
    /\ DiscoverIdle
    /\ DeviceIdle
    /\ DiscoverIdle

\* encrypted = TPLinkSmartHomeProtocol.encrypt(d)
Encrypt ==
    /\ cpc = "idle"
    /\ \E d \in Strings :
           /\ c_request' = d
           /\ c_encrypted' = encrypt(d)
    /\ cpc' = "encrypted"
    /\ UNCHANGED << c_input, c_decrypted, c_how, notCodec >>

DecryptAs(how, input) ==
    /\ c_input' = input
    /\ c_decrypted' = decrypt(input)
    /\ c_how' = how
    /\ cpc' = "decrypted"

\* decrypt(buffer[4:]) of query, and the encrypted_req[4:] of discover
DecryptPayload ==
    /\ cpc = "encrypted"
    /\ DecryptAs("payload", DropFirst(c_encrypted, HeaderLen))
    /\ UNCHANGED << c_request, c_encrypted, notCodec >>

\* decrypt applied to the whole of what encrypt returned
DecryptWhole ==
    /\ cpc = "encrypted"
    /\ DecryptAs("whole", c_encrypted)
    /\ UNCHANGED << c_request, c_encrypted, notCodec >>

\* test_encrypt: encrypted.lstrip(b'\0'), then decrypt
DecryptStripped ==
    /\ cpc = "encrypted"
    /\ DecryptAs("lstrip", lstripZero(c_encrypted))
    /\ UNCHANGED << c_request, c_encrypted, notCodec >>

\* decrypt(data) of discover: a byte string that came from the network
DecryptDatagram ==
    /\ cpc = "idle"
    /\ \E data \in ShortStrings : DecryptAs("datagram", data)
    /\ UNCHANGED << c_request, c_encrypted, notCodec >>

\* the caller goes on to its next message
NextMessage ==
    /\ cpc = "decrypted"
    /\ cpc' = "idle"
    /\ c_request' = << >>
    /\ c_encrypted' = << >>
    /\ c_input' = << >>
    /\ c_decrypted' = << >>
    /\ c_how' = "none"
    /\ UNCHANGED notCodec

CodecNext ==
    \/ Encrypt
    \/ DecryptPayload
    \/ DecryptWhole
    \/ DecryptStripped
    \/ DecryptDatagram
    \/ NextMessage

SpecCodec == CodecInit /\ [][CodecNext]_vars

(***************************************************************************)
(* The device at the other end of a query connection.  It delivers a byte  *)
(* stream: a length header, then the ciphertext of a reply; the header     *)
(* declares the reply's length, zero, or a wrong length; the device may    *)
(* stop anywhere in the stream.  After the stream it closes the            *)
(* connection, keeps it open and silent, or resets it.                     *)
(***************************************************************************)
Replies ==
    { Cipher(ResponseText(doc)) : doc \in Responses } \cup { << 0, 0, 0 >> }

WireStreams ==
    UNION { { TakeFirst(pack(h) \o r, n) :
                  h \in {0, Len(r) - 1, Len(r), Len(r) + 1},
                  n \in 0..(HeaderLen + Len(r)) } : r \in Replies }

Endings == {"close", "hang", "reset"}

\* what is not a variable of the query exchange
notQuery == << codecVars, discoverVars, deviceVars >>

(***************************************************************************)
(* TPLinkSmartHomeProtocol.query, one action per statement that touches    *)
(* the socket.                                                             *)
(***************************************************************************)
\* the loop's exit test with the declared length not required to be nonzero
LoopDoneAnyLength(len, buf, chk) ==
    Len(buf) >= len + 4 \/ chk = << >>

\* if (length > 0 and len(buffer) >= length + 4) or not chunk: break
LoopDone(len, buf, chk) ==
    (len > 0 /\ Len(buf) >= len + 4) \/ chk = << >>

\* sock.connect((host, port)) succeeds: a device answers
Connect ==
    /\ qpc = "connect"
    /\ sock' = "connected"
    /\ stream' \in WireStreams
    /\ ending' \in Endings
    /\ qpc' = "send"
    /\ UNCHANGED << sent, buffer, length, chunk, pending, response >>
    /\ UNCHANGED << helperVars, notQuery >>

\* sock.connect raises: connection refused, or no answer within the timeout
ConnectFails ==
    /\ qpc = "connect"
    /\ pending' \in {"OSError", "timeout"}
    /\ qpc' = "shutdown"
    /\ UNCHANGED << sock, sent, buffer, length, chunk, response >>
    /\ UNCHANGED << helperVars, peerVars, notQuery >>

\* sock.send(TPLinkSmartHomeProtocol.encrypt(request)); buffer = bytes();
\* length = -1
Send ==
    /\ qpc = "send"
    /\ sent' = encrypt(RequestText(target, cmd))
    /\ buffer' = << >>
    /\ length' = -1
    /\ qpc' = "recv"
    /\ UNCHANGED << sock, chunk, pending, response >>
    /\ UNCHANGED << helperVars, peerVars, notQuery >>

\* sock.send raises
SendFails ==
    /\ qpc = "send"
    /\ pending' = "OSError"
    /\ qpc' = "shutdown"
    /\ UNCHANGED << sock, sent, buffer, length, chunk, response >>
    /\ UNCHANGED << helperVars, peerVars, notQuery >>

\* what one sock.recv(4096) can return: some of the bytes in flight, or the
\* empty string once the peer has closed
RecvChunks ==
    IF stream /= << >>
    THEN { TakeFirst(stream, n) :
               n \in 1..(IF Len(stream) < RecvSize THEN Len(stream) ELSE RecvSize) }
    ELSE IF ending = "close" THEN { << >> } ELSE {}

\* one pass of the while loop in which sock.recv returns
Recv ==
    /\ qpc = "recv"
    /\ \E c \in RecvChunks :
          /\ chunk' = c
          /\ stream' = DropFirst(stream, Len(c))
          /\ IF length = -1 /\ Len(TakeFirst(c, 4)) < 4
             THEN \* struct.unpack raises struct.error on a short header
                  /\ pending' = "struct.error"
                  /\ qpc' = "shutdown"
                  /\ UNCHANGED << length, buffer >>
             ELSE /\ length' = IF length = -1 THEN unpack(TakeFirst(c, 4))
                                               ELSE length
                  /\ buffer' = buffer \o c
                  /\ qpc' = IF LoopDone(length', buffer', c) THEN "shutdown"
                                                             ELSE "recv"
                  /\ UNCHANGED pending
    /\ UNCHANGED << sock, sent, response, ending >>
    /\ UNCHANGED << helperVars, notQuery >>

\* sock.recv raises: nothing arrives within the timeout, or the peer resets
RecvFails ==
    /\ qpc = "recv"
    /\ stream = << >>
    /\ ending \in {"hang", "reset"}
    /\ pending' = IF ending = "hang" THEN "timeout" ELSE "OSError"
    /\ qpc' = "shutdown"
    /\ UNCHANGED << sock, sent, buffer, length, chunk, response >>
    /\ UNCHANGED << helperVars, peerVars, notQuery >>

\* where control goes after the finally block
AfterFinally == IF pending = "none" THEN "decrypt" ELSE "raised"

\* finally: sock.shutdown(socket.SHUT_RDWR) succeeds
Shutdown ==
    /\ qpc = "shutdown"
    /\ sock = "connected"
    /\ sock' = "shutdown"
    /\ qpc' = "close"
    /\ UNCHANGED << sent, buffer, length, chunk, pending, response >>
    /\ UNCHANGED << helperVars, peerVars, notQuery >>

\* finally: sock.shutdown raises OSError (the socket never connected; or, on
\* some platforms, the peer has gone), which except OSError: pass swallows;
\* sock.close() is skipped
ShutdownRaises ==
    /\ qpc = "shutdown"
    /\ sock /= "connected" \/ ending \in {"close", "reset"}
    /\ qpc' = AfterFinally
    /\ UNCHANGED << sock, sent, buffer, length, chunk, pending, response >>
    /\ UNCHANGED << helperVars, peerVars, notQuery >>

\* finally: sock.close()
Close ==
    /\ qpc = "close"
    /\ sock' = "closed"
    /\ qpc' = AfterFinally
    /\ UNCHANGED << sent, buffer, length, chunk, pending, response >>
    /\ UNCHANGED << helperVars, peerVars, notQuery >>

\* response = decrypt(buffer[4:]); return json.loads(response)
DecryptParse ==
    /\ qpc = "decrypt"
    /\ LET text == decrypt(DropFirst(buffer, 4))
       IN  IF Parses(text)
           THEN /\ response' = jsonLoads(text)
                /\ qpc' = "returned"
                /\ UNCHANGED pending
           ELSE /\ pending' = "ValueError"
                /\ qpc' = "raised"
                /\ UNCHANGED response
    /\ UNCHANGED << sock, sent, buffer, length, chunk >>
    /\ UNCHANGED << helperVars, peerVars, notQuery >>

(***************************************************************************)
(* SmartDevice._query_helper.                                              *)
(***************************************************************************)
\* del d[k]
Remove(d, k) == [x \in DOMAIN d \ {k} |-> d[x]]

Raised(type, cause, msg) ==
    [outcome |-> "raised", ret |-> << >>,
     exc |-> [type |-> type, cause |-> cause, msg |-> msg]]

Returned(result) ==
    [outcome |-> "returned", ret |-> result, exc |-> NoException]

\* the except clause letting the exception of query through as it is
QueryFailedUnwrapped(ex) == Raised(ex, "none", "")

\* the except clause raising SmartPlugException without its cause
QueryFailedNoCause(ex) == Raised("SmartPlugException", "none", "")

\* except Exception as ex: raise_from(SmartPlugException(), ex)
QueryFailed(ex) == Raised("SmartPlugException", ex, "")

\* the unwrapping without the test "if target not in response": the lookup
\* response[target] raises KeyError
UnwrapNoTargetTest(t, c, resp) ==
    IF t \notin DOMAIN resp
    THEN Raised("KeyError", "none", t)
    ELSE LET result == resp[t]
         IN  IF "err_code" \in DOMAIN result /\ result["err_code"] /= 0
             THEN Raised("SmartPlugException", "none", "Error on target.cmd")
             ELSE IF c \notin DOMAIN result
             THEN Raised("KeyError", "none", c)
             ELSE IF "err_code" \notin DOMAIN result[c]
             THEN Raised("KeyError", "none", "err_code")
             ELSE Returned(Remove(result[c], "err_code"))

\* the unwrapping without del result["err_code"]
UnwrapKeepErrCode(t, c, resp) ==
    IF t \notin DOMAIN resp
    THEN Raised("SmartPlugException", "none", "No required target in response")
    ELSE LET result == resp[t]
         IN  IF "err_code" \in DOMAIN result /\ result["err_code"] /= 0
             THEN Raised("SmartPlugException", "none", "Error on target.cmd")
             ELSE IF c \notin DOMAIN result
             THEN Raised("KeyError", "none", c)
             ELSE Returned(result[c])

\* lines 76-86: the checks on the response and the unwrapping of the result
Unwrap(t, c, resp) ==
    IF t \notin DOMAIN resp
    THEN Raised("SmartPlugException", "none", "No required target in response")
    ELSE LET result == resp[t]
         IN  IF "err_code" \in DOMAIN result /\ result["err_code"] /= 0
             THEN Raised("SmartPlugException", "none", "Error on target.cmd")
             ELSE IF c \notin DOMAIN result
             THEN Raised("KeyError", "none", c)
             ELSE IF "err_code" \notin DOMAIN result[c]
             THEN Raised("KeyError", "none", "err_code")
             ELSE Returned(Remove(result[c], "err_code"))

\* _query_helper(target, cmd) is called and calls self.protocol.query, which
\* creates its socket
QueryHelperCall ==
    /\ dpc = "idle"
    /\ target' \in Targets
    /\ cmd' \in Cmds
    /\ dpc' = "query"
    /\ qpc' = "connect"
    /\ sock' = "open"
    /\ UNCHANGED << outcome, ret, exc >>
    /\ UNCHANGED << sent, buffer, length, chunk, pending, response >>
    /\ UNCHANGED << peerVars, notQuery >>

Finish(r) ==
    /\ outcome' = r.outcome
    /\ ret' = r.ret
    /\ exc' = r.exc
    /\ dpc' = "done"
    /\ UNCHANGED << target, cmd, queryVars, peerVars, notQuery >>

\* query returned a response
QueryHelperUnwrap ==
    /\ dpc = "query"
    /\ qpc = "returned"
    /\ Finish(Unwrap(target, cmd, response))

\* query raised
QueryHelperExcept ==
    /\ dpc = "query"
    /\ qpc = "raised"
    /\ Finish(QueryFailed(pending))

Init ==
    /\ CodecIdle
    /\ HelperIdle
    /\ DiscoverIdle
    /\ DeviceIdle

Next ==
    \/ QueryHelperCall
    \/ Connect
    \/ ConnectFails
    \/ Send
    \/ SendFails
    \/ Recv
    \/ RecvFails
    \/ Shutdown
    \/ ShutdownRaises
    \/ Close
    \/ DecryptParse
    \/ QueryHelperUnwrap
    \/ QueryHelperExcept

Spec == Init /\ [][Next]_vars

(***************************************************************************)
(* TPLinkSmartHomeProtocol.discover.  The network delivers, before the     *)
(* receive timeout, a sequence of datagrams: each from some sender, each   *)
(* the ciphertext of a reply or bytes that do not decrypt to JSON.         *)
(***************************************************************************)
Senders == {"192.168.0.10", "192.168.0.11"}

DEFAULT_PORT == 9999

\* the timeout discover is called with, in seconds
DEFAULT_TIMEOUT == 5

DiscoveryReplies ==
    { [system |-> [get_sysinfo |-> [err_code |-> 0, relay_state |-> 1]]],
      [emeter |-> [get_realtime |-> [err_code |-> 0, relay_state |-> 1]]] }

Payloads ==
    { Cipher(ResponseText(doc)) : doc \in DiscoveryReplies } \cup { << 0, 0, 0 >> }

Datagrams == [ip : Senders, port : {DEFAULT_PORT}, data : Payloads]

RECURSIVE SeqsOfLen(_, _)
SeqsOfLen(S, n) ==
    IF n = 0 THEN { << >> }
    ELSE { Append(q, x) : q \in SeqsOfLen(S, n - 1), x \in S }

ArrivalSeqs == UNION { SeqsOfLen(Datagrams, n) : n \in 0..MaxDatagrams }

\* json.loads(decrypt(data)) succeeds
WellFormed(dgram) == Parses(decrypt(dgram.data))

\* {"ip": ip, "port": port, "sys_info": info}
Descriptor(dgram) ==
    [ip |-> dgram.ip, port |-> dgram.port,
     sys_info |-> jsonLoads(decrypt(dgram.data))]

notDiscover == << codecVars, helperVars, queryVars, peerVars, deviceVars >>

\* discover is called: the socket is created and configured
DiscoverCall ==
    /\ vpc = "idle"
    /\ usock' = "open"
    /\ vpc' = "sendto"
    /\ elapsed' = 0
    /\ UNCHANGED << devices, caught, arrivals, received, notDiscover >>

\* sock.sendto(encrypted_req[4:], (target, port)); devices = []
SendTo ==
    /\ vpc = "sendto"
    /\ arrivals' \in ArrivalSeqs
    /\ devices' = << >>
    /\ vpc' = "recvfrom"
    /\ UNCHANGED << usock, caught, received, elapsed, notDiscover >>

\* sock.sendto raises, outside the try statement
SendToFails ==
    /\ vpc = "sendto"
    /\ vpc' = "raised"
    /\ UNCHANGED << usock, devices, caught, arrivals, received, elapsed,
                    notDiscover >>

\* the time recvfrom blocks before a datagram arrives: sock.settimeout sets
\* the timeout of each call of recvfrom, and the datagram is there before it
Waits(timeout) == 0..(timeout - 1)

\* one pass of the while loop in which recvfrom returns a datagram; a
\* ValueError of json.loads is caught by except Exception outside the loop
RecvFrom ==
    /\ vpc = "recvfrom"
    /\ received < Len(arrivals)
    /\ received' = received + 1
    /\ \E wait \in Waits(DEFAULT_TIMEOUT) : elapsed' = elapsed + wait
    /\ LET dgram == arrivals[received + 1]
       IN  IF WellFormed(dgram)
           THEN /\ devices' = Append(devices, Descriptor(dgram))
                /\ UNCHANGED << vpc, caught >>
           ELSE /\ caught' = "ValueError"
                /\ vpc' = "returned"
                /\ UNCHANGED devices
    /\ UNCHANGED << usock, arrivals, notDiscover >>

\* recvfrom raises socket.timeout: no datagram within the timeout
RecvFromTimeout ==
    /\ vpc = "recvfrom"
    /\ received = Len(arrivals)
    /\ caught' = "timeout"
    /\ vpc' = "returned"
    /\ elapsed' = elapsed + DEFAULT_TIMEOUT
    /\ UNCHANGED << usock, devices, arrivals, received, notDiscover >>

\* recvfrom raises another error
RecvFromFails ==
    /\ vpc = "recvfrom"
    /\ caught' = "OSError"
    /\ vpc' = "returned"
    /\ UNCHANGED << usock, devices, arrivals, received, elapsed, notDiscover >>

DiscoverNext ==
    \/ DiscoverCall
    \/ SendTo
    \/ SendToFails
    \/ RecvFrom
    \/ RecvFromTimeout
    \/ RecvFromFails

SpecDiscover == Init /\ [][DiscoverNext]_vars

(***************************************************************************)
(* The device classes used through an injected transport.  The device is   *)
(* the table of tests/fakes.py: proto[target][cmd] is the stored result of *)
(* a read command, and a write command changes the stored results.  An     *)
(* operation of a device class is a run: the table after it, the requests  *)
(* it handed to protocol.query and how it ended.                           *)
(***************************************************************************)
LightingService == "smartlife.iot.smartbulb.lightingservice"

\* Python's None
None == "None"

\* the entries of baseproto that are functions
Callable ==
    { << "system", "set_relay_state" >>,
      << "system", "set_led_off" >>,
      << "system", "set_dev_alias" >>,
      << LightingService, "transition_light_state" >> }

\* success(target, cmd, res): res.update({"err_code": 0})
success(t, c, r) == t :> (c :> ([err_code |-> 0] @@ r))

\* the table after FakeTransportProtocol.query({t: {c: a}})
FakeProto(p, t, c, a) ==
    CASE << t, c >> = << "system", "set_relay_state" >> ->
             [p EXCEPT !["system"]["get_sysinfo"]["relay_state"] = a["state"]]
      [] << t, c >> = << "system", "set_led_off" >> ->
             [p EXCEPT !["system"]["get_sysinfo"]["led_off"] = a["off"]]
      [] << t, c >> = << "system", "set_dev_alias" >> ->
             [p EXCEPT !["system"]["get_sysinfo"]["alias"] = a["alias"]]
      [] << t, c >> = << LightingService, "transition_light_state" >> ->
             [p EXCEPT ![LightingService]["get_light_state"] = a @@ @]
      [] OTHER -> p

\* get_daystat(obj, x) and get_monthstat(obj, x): the stored list from 2016
\* on, an empty list for the years before
StatCommands == {"get_daystat", "get_monthstat"}

get_stat(stored, x) ==
    IF x["year"] < 2016 THEN [k \in DOMAIN stored |-> << >>] ELSE stored

\* what FakeTransportProtocol.query({t: {c: a}}) returns
FakeResponse(p, t, c, a) ==
    IF << t, c >> \in Callable
    THEN success(t, c, << >>)
    ELSE IF c \in StatCommands
    THEN success(t, c, get_stat(p[t][c], a))
    ELSE success(t, c, p[t][c])

\* request={target: {cmd: arg}}
Request(t, c, a) == [target |-> t, cmd |-> c, arg |-> a]

\* self._query_helper(t, c, a) on the device p
query_helper(p, t, c, a) ==
    [proto |-> FakeProto(p, t, c, a),
     calls |-> << Request(t, c, a) >>,
     out |-> Unwrap(t, c, FakeResponse(p, t, c, a))]

\* a run that made no request
NoCall(p, o) == [proto |-> p, calls |-> << >>, out |-> o]

\* get_sysinfo answering from the result of the previous read of sys_info
get_sysinfoCached(p) ==
    IF op = "sys_info" /\ out.outcome = "returned"
    THEN NoCall(p, out)
    ELSE query_helper(p, "system", "get_sysinfo", << >>)

get_sysinfo(p) == query_helper(p, "system", "get_sysinfo", << >>)

sys_info(p) == get_sysinfo(p)

\* return self.sys_info[key]
sys_info_item(p, key) ==
    LET r == sys_info(p)
    IN  IF r.out.outcome = "raised" THEN r
        ELSE [r EXCEPT !.out = Returned(r.out.ret[key])]

model(p) == sys_info_item(p, "model")

alias(p) == sys_info_item(p, "alias")

\* bool(self.sys_info['relay_state'])
is_on(p) ==
    LET r == sys_info_item(p, "relay_state")
    IN  IF r.out.outcome = "raised" THEN r
        ELSE [r EXCEPT !.out = Returned(r.out.ret /= 0)]

\* not self.is_on
is_off(p) ==
    LET r == is_on(p)
    IN  IF r.out.outcome = "raised" THEN r
        ELSE [r EXCEPT !.out = Returned(~r.out.ret)]

\* bool(1 - self.sys_info["led_off"])
led(p) ==
    LET r == sys_info_item(p, "led_off")
    IN  IF r.out.outcome = "raised" THEN r
        ELSE [r EXCEPT !.out = Returned(1 - r.out.ret /= 0)]

\* a method whose body is one self._query_helper call, returning None
Command(p, t, c, a) ==
    LET r == query_helper(p, t, c, a)
    IN  IF r.out.outcome = "raised" THEN r
        ELSE [r EXCEPT !.out = Returned(None)]

\* turn_on sending the state of turn_off
turn_onStateZero(p) == Command(p, "system", "set_relay_state", [state |-> 0])

turn_on(p) == Command(p, "system", "set_relay_state", [state |-> 1])

turn_off(p) == Command(p, "system", "set_relay_state", [state |-> 0])

\* the setter of SmartDevice.icon returning without a request and without
\* an exception
icon_setterSilent(p, icon) == NoCall(p, Returned(None))

\* the setter of SmartDevice.icon: raise NotImplementedError(...)
icon_setter(p, icon) ==
    NoCall(p, Raised("NotImplementedError", "none",
                     "Values for this call are unknown at this point."))

\* the setter of SmartDevice.time: raise NotImplementedError(...)
time_setter(p, ts) ==
    NoCall(p, Raised("NotImplementedError", "none",
                     "Fails with err_code == 0 with HS110."))

\* the values callers assign to SmartPlug.state: strings and a non-string
StateValues ==
    { [type |-> "str", text |-> t] :
          t \in {"ON", "on", "On", "OFF", "off", "oFF", "UNKNOWN", ""} }
        \cup { [type |-> "int", text |-> "1"] }

\* str.upper leaving the text as it is
upperIdentity(text) == text

\* str.upper on the texts of StateValues
upper(text) ==
    CASE text \in {"on", "On"} -> "ON"
      [] text \in {"off", "oFF"} -> "OFF"
      [] OTHER -> text

\* the getter of SmartPlug.state
plug_state(p) ==
    LET r == sys_info_item(p, "relay_state")
    IN  IF r.out.outcome = "raised" THEN r
        ELSE [r EXCEPT !.out =
                 Returned(IF r.out.ret = 0 THEN "OFF"
                          ELSE IF r.out.ret = 1 THEN "ON"
                          ELSE "UNKNOWN")]

\* the branch the setter of SmartPlug.state takes: "turn_on", "turn_off"
\* or "ValueError"
StateBranch(value) ==
    IF value.type /= "str" THEN "ValueError"
    ELSE IF upper(value.text) = "ON" THEN "turn_on"
    ELSE IF upper(value.text) = "OFF" THEN "turn_off"
    ELSE "ValueError"

\* the setter of SmartPlug.state
plug_state_setter(p, value) ==
    CASE StateBranch(value) = "turn_on" -> turn_on(p)
      [] StateBranch(value) = "turn_off" -> turn_off(p)
      [] OTHER -> NoCall(p, Raised("ValueError", "none", "State is not valid."))

(***************************************************************************)
(* A SmartPlug: reads of sys_info and of accessors derived from it, the    *)
(* two switching methods, and changes made to the device by others.        *)
(***************************************************************************)
PlugSysInfos ==
    [relay_state : {0, 1}, led_off : {0, 1}, alias : {"Plug", "Lamp"},
     model : {"HS110(US)"}]

PlugProtos == { [system |-> [get_sysinfo |-> s]] : s \in PlugSysInfos }

notDevice ==
    << codecVars, helperVars, queryVars, peerVars, discoverVars >>

\* plug = SmartPlug(ip, protocol=FakeTransportProtocol(sysinfo))
PlugInit ==
    /\ CodecIdle
    /\ HelperIdle
    /\ DiscoverIdle
    /\ proto \in PlugProtos
    /\ op = "none"
    /\ args = << >>
    /\ calls = << >>
    /\ out = [outcome |-> "none", ret |-> << >>, exc |-> NoException]
    /\ lastSwitch = "none"

\* the operation name(a) ran as r
Done(name, a, r) ==
    /\ op' = name
    /\ args' = a
    /\ proto' = r.proto
    /\ calls' = r.calls
    /\ out' = r.out
    /\ UNCHANGED notDevice

ReadSysInfo == Done("sys_info", << >>, sys_info(proto)) /\ UNCHANGED lastSwitch

ReadModel == Done("model", << >>, model(proto)) /\ UNCHANGED lastSwitch

ReadAlias == Done("alias", << >>, alias(proto)) /\ UNCHANGED lastSwitch

ReadIsOn == Done("is_on", << >>, is_on(proto)) /\ UNCHANGED lastSwitch

ReadIsOff == Done("is_off", << >>, is_off(proto)) /\ UNCHANGED lastSwitch

ReadLed == Done("led", << >>, led(proto)) /\ UNCHANGED lastSwitch

TurnOn == Done("turn_on", << >>, turn_on(proto)) /\ lastSwitch' = "turn_on"

TurnOff == Done("turn_off", << >>, turn_off(proto)) /\ lastSwitch' = "turn_off"

SetIcon ==
    \E icon \in {"icon.png"} :
        /\ Done("icon.setter", icon, icon_setter(proto, icon))
        /\ UNCHANGED lastSwitch

SetTime ==
    \E ts \in {"2017-01-02 03:04:05"} :
        /\ Done("time.setter", ts, time_setter(proto, ts))
        /\ UNCHANGED lastSwitch

ReadState == Done("state", << >>, plug_state(proto)) /\ UNCHANGED lastSwitch

SetPlugState ==
    \E value \in StateValues :
        /\ Done("state.setter", value, plug_state_setter(proto, value))
        /\ lastSwitch' =
               IF StateBranch(value) = "ValueError" THEN lastSwitch
               ELSE StateBranch(value)

\* the button on the device or another controller changes the device
OutOfBand ==
    /\ proto \in PlugProtos
    /\ proto' \in PlugProtos \ {proto}
    /\ lastSwitch' =
           IF proto'["system"]["get_sysinfo"]["relay_state"]
                  = proto["system"]["get_sysinfo"]["relay_state"]
           THEN lastSwitch
           ELSE "other"
    /\ UNCHANGED << op, args, calls, out, notDevice >>

PlugNext ==
    \/ ReadSysInfo
    \/ ReadModel
    \/ ReadAlias
    \/ ReadIsOn
    \/ ReadIsOff
    \/ ReadLed
    \/ TurnOn
    \/ TurnOff
    \/ SetIcon
    \/ SetTime
    \/ ReadState
    \/ SetPlugState
    \/ OutOfBand

SpecPlug == PlugInit /\ [][PlugNext]_vars

(***************************************************************************)
(* A SmartStrip with three outlets.  The class calls                       *)
(* SmartDevice._query_helper, which takes target, cmd and arg.             *)
(***************************************************************************)
ChildIds == << "8006A0", "8006A1", "8006A2" >>

\* the children lists a strip can report: the ids are fixed, the states vary
ChildrenLists ==
    { [i \in 1..Len(ChildIds) |-> [id |-> ChildIds[i], state |-> st[i]]] :
          st \in [1..Len(ChildIds) -> {0, 1}] }

StripProtos ==
    { [system |-> [get_sysinfo |-> [children |-> ch, child_num |-> Len(ch)]]] :
          ch \in ChildrenLists }

\* the plug indexes callers pass, in and out of range
PlugIndexes == 0..(Len(ChildIds) + 1)

\* seq[i] of a Python list raises IndexError
IndexError(seq, i) == i >= Len(seq) \/ i < 0 - Len(seq)

\* seq[i] of a Python list: from the start for i >= 0, from the end for i < 0
Item(seq, i) == IF i >= 0 THEN seq[i + 1] ELSE seq[Len(seq) + i + 1]

\* self.sys_info['children'][i][key]
child_item(p, i, key) ==
    LET r == sys_info_item(p, "children")
    IN  IF r.out.outcome = "raised" THEN r
        ELSE IF IndexError(r.out.ret, i)
        THEN [r EXCEPT !.out = Raised("IndexError", "none", "list index out of range")]
        ELSE [r EXCEPT !.out = Returned(Item(r.out.ret, i)[key])]

\* SmartStrip._index_to_id(index)
index_to_id(p, index) == child_item(p, index - 1, "id")

\* SmartStrip.is_on(index)
is_on_plug(p, index) ==
    LET r == child_item(p, index, "state")
    IN  IF r.out.outcome = "raised" THEN r
        ELSE [r EXCEPT !.out = Returned(r.out.ret /= 0)]

\* self._query_helper(t, c, a, context): the call binds four arguments to
\* the three parameters of def _query_helper(self, target, cmd, arg={})
query_helper_context(p, t, c, a, context) ==
    NoCall(p, Raised("TypeError", "none",
                     "_query_helper() takes from 3 to 4 positional arguments"))

\* self._query_helper("system", "set_relay_state", {"state": state},
\*                    self._index_to_id(index))
set_plug(p, state, index) ==
    LET r == index_to_id(p, index)
    IN  IF r.out.outcome = "raised" THEN r
        ELSE LET q == query_helper_context(r.proto, "system", "set_relay_state",
                                           [state |-> state], r.out.ret)
             IN  [proto |-> q.proto, calls |-> r.calls \o q.calls,
                  out |-> IF q.out.outcome = "raised" THEN q.out
                          ELSE Returned(None)]

turn_on_plug(p, index) == set_plug(p, 1, index)

turn_off_plug(p, index) == set_plug(p, 0, index)

\* strip = SmartStrip(ip, protocol=FakeTransportProtocol(sysinfo))
StripInit ==
    /\ CodecIdle
    /\ HelperIdle
    /\ DiscoverIdle
    /\ proto \in StripProtos
    /\ op = "none"
    /\ args = << >>
    /\ calls = << >>
    /\ out = [outcome |-> "none", ret |-> << >>, exc |-> NoException]
    /\ lastSwitch = "none"

TurnOnPlug ==
    \E index \in PlugIndexes :
        /\ Done("turn_on_plug", index, turn_on_plug(proto, index))
        /\ UNCHANGED lastSwitch

TurnOffPlug ==
    \E index \in PlugIndexes :
        /\ Done("turn_off_plug", index, turn_off_plug(proto, index))
        /\ UNCHANGED lastSwitch

IsOnPlug ==
    \E index \in PlugIndexes :
        /\ Done("is_on", index, is_on_plug(proto, index))
        /\ UNCHANGED lastSwitch

\* the buttons on the strip or another controller switch outlets
StripOutOfBand ==
    /\ proto' \in StripProtos \ {proto}
    /\ lastSwitch' = "other"
    /\ UNCHANGED << op, args, calls, out, notDevice >>

StripNext ==
    \/ TurnOnPlug
    \/ TurnOffPlug
    \/ IsOnPlug
    \/ StripOutOfBand

SpecStrip == StripInit /\ [][StripNext]_vars

(***************************************************************************)
(* A SmartBulb.  The light state of the device holds the fields in force   *)
(* while the bulb is on at its top level and the fields it will take when  *)
(* switched on under dft_on_state; the accessors branch on on_off.         *)
(***************************************************************************)
\* the capability flags of sys_info
BulbSysInfos ==
    { [is_color |-> 1, is_dimmable |-> 1, is_variable_color_temp |-> 1],
      [is_color |-> 0, is_dimmable |-> 1, is_variable_color_temp |-> 1],
      [is_color |-> 0, is_dimmable |-> 1, is_variable_color_temp |-> 0],
      [is_color |-> 0, is_dimmable |-> 0, is_variable_color_temp |-> 0] }

\* the light state of the fixture, on or off
BulbLightStates ==
    { [on_off |-> o, hue |-> 0, saturation |-> 0, color_temp |-> 3700,
       brightness |-> 100,
       dft_on_state |-> [hue |-> 0, saturation |-> 0, color_temp |-> 2700,
                         brightness |-> 50]] : o \in {0, 1} }

BulbProtos ==
    { ("system" :> [get_sysinfo |-> s])
          @@ (LightingService :> [get_light_state |-> l]) :
          s \in BulbSysInfos, l \in BulbLightStates }

\* the arguments callers pass to the setters, in and out of range
BrightnessArgs == {-100, 1, 10, 50, 100, 110}

HsvArgs ==
    { << 0, 0, 0 >>, << 1, 1, 1 >>, << 120, 75, 128 >>, << 240, 75, 254 >>,
      << -1, 0, 0 >>, << 0, 101, 0 >>, << 0, 0, 256 >> }

ColorTempArgs == {1000, 2700, 10000}

StateArgs == {"ON", "OFF", "DIM"}

\* int(n / d) of Python 3: the quotient truncated toward zero
int(n, d) == IF n >= 0 THEN n \div d ELSE 0 - ((0 - n) \div d)

\* bool(self.sys_info[flag])
capability(p, flag) ==
    LET r == sys_info_item(p, flag)
    IN  IF r.out.outcome = "raised" THEN r
        ELSE [r EXCEPT !.out = Returned(r.out.ret /= 0)]

is_color(p) == capability(p, "is_color")

is_dimmable(p) == capability(p, "is_dimmable")

is_variable_color_temp(p) == capability(p, "is_variable_color_temp")

get_light_state(p) == query_helper(p, LightingService, "get_light_state", << >>)

set_light_state(p, state) ==
    query_helper(p, LightingService, "transition_light_state", state)

\* if not self.<capability>: return None, and otherwise the run q
Gated(r, q) ==
    IF r.out.outcome = "raised" THEN r
    ELSE IF ~r.out.ret THEN [r EXCEPT !.out = Returned(None)]
    ELSE [proto |-> q.proto, calls |-> r.calls \o q.calls, out |-> q.out]

\* the object the getters read: light_state['dft_on_state'] when on_off == 0
InForce(light_state) ==
    IF light_state["on_off"] = 0 THEN light_state["dft_on_state"]
    ELSE light_state

\* the getter of SmartBulb.hsv
hsv(p) ==
    Gated(is_color(p),
          LET q == get_light_state(p)
          IN  IF q.out.outcome = "raised" THEN q
              ELSE [q EXCEPT !.out =
                       Returned(<< InForce(q.out.ret)["hue"],
                                   InForce(q.out.ret)["saturation"],
                                   int(InForce(q.out.ret)["brightness"] * 255,
                                       100) >>)])

\* the setter of SmartBulb.hsv
hsv_setter(p, state) ==
    Gated(is_color(p),
          set_light_state(p, [hue |-> state[1], saturation |-> state[2],
                              brightness |-> int(state[3] * 100, 255),
                              color_temp |-> 0]))

\* the getter of SmartBulb.color_temp
color_temp(p) ==
    Gated(is_variable_color_temp(p),
          LET q == get_light_state(p)
          IN  IF q.out.outcome = "raised" THEN q
              ELSE [q EXCEPT !.out = Returned(InForce(q.out.ret)["color_temp"])])

\* the setter of SmartBulb.color_temp
color_temp_setter(p, temp) ==
    Gated(is_variable_color_temp(p),
          set_light_state(p, [color_temp |-> temp]))

\* the getter of SmartBulb.brightness
brightness(p) ==
    Gated(is_dimmable(p),
          LET q == get_light_state(p)
          IN  IF q.out.outcome = "raised" THEN q
              ELSE [q EXCEPT !.out = Returned(InForce(q.out.ret)["brightness"])])

\* the setter of SmartBulb.brightness
brightness_setter(p, b) ==
    Gated(is_dimmable(p), set_light_state(p, [brightness |-> b]))

\* the setter of SmartBulb.state
state_setter(p, bulb_state) ==
    IF bulb_state = "ON" THEN set_light_state(p, [on_off |-> 1])
    ELSE IF bulb_state = "OFF" THEN set_light_state(p, [on_off |-> 0])
    ELSE NoCall(p, Raised("ValueError", "none", ""))

\* bulb = SmartBulb(ip, protocol=FakeTransportProtocol(sysinfo))
BulbInit ==
    /\ CodecIdle
    /\ HelperIdle
    /\ DiscoverIdle
    /\ proto \in BulbProtos
    /\ op = "none"
    /\ args = << >>
    /\ calls = << >>
    /\ out = [outcome |-> "none", ret |-> << >>, exc |-> NoException]
    /\ lastSwitch = "none"

GetHsv == Done("hsv", << >>, hsv(proto)) /\ UNCHANGED lastSwitch

SetHsv ==
    \E state \in HsvArgs :
        /\ Done("hsv.setter", state, hsv_setter(proto, state))
        /\ UNCHANGED lastSwitch

GetColorTemp ==
    Done("color_temp", << >>, color_temp(proto)) /\ UNCHANGED lastSwitch

SetColorTemp ==
    \E temp \in ColorTempArgs :
        /\ Done("color_temp.setter", temp, color_temp_setter(proto, temp))
        /\ UNCHANGED lastSwitch

GetBrightness ==
    Done("brightness", << >>, brightness(proto)) /\ UNCHANGED lastSwitch

SetBrightness ==
    \E b \in BrightnessArgs :
        /\ Done("brightness.setter", b, brightness_setter(proto, b))
        /\ UNCHANGED lastSwitch

SetState ==
    \E bulb_state \in StateArgs :
        /\ Done("state.setter", bulb_state, state_setter(proto, bulb_state))
        /\ UNCHANGED lastSwitch

BulbNext ==
    \/ GetHsv
    \/ SetHsv
    \/ GetColorTemp
    \/ SetColorTemp
    \/ GetBrightness
    \/ SetBrightness
    \/ SetState

SpecBulb == BulbInit /\ [][BulbNext]_vars

(***************************************************************************)
(* The energy meter of SmartDevice, used through a SmartPlug on the table  *)
(* of a plug and through a SmartBulb on the table of a bulb.  The numbers  *)
(* of a reading are taken with whole values: a plug reports power in watt  *)
(* and energy in kWh, a bulb reports power_mw in milliwatt and energy_wh   *)
(* in watt-hours.                                                          *)
(***************************************************************************)
\* the attributes SmartPlug.__init__ sets
SmartPlug ==
    [class |-> "SmartPlug", emeter_type |-> "emeter", emeter_units |-> FALSE]

\* the attributes SmartBulb.__init__ sets
SmartBulb ==
    [class |-> "SmartBulb", emeter_type |-> "smartlife.iot.common.emeter",
     emeter_units |-> TRUE]

FEATURE_ENERGY_METER == "ENE"

\* str.split(':') on the feature texts of the tables
split(text) ==
    CASE text = "TIM:ENE" -> << "TIM", "ENE" >>
      [] OTHER -> << text >>

\* the run q made after the run r
AndThen(r, q) == [q EXCEPT !.calls = r.calls \o q.calls]

\* a run that returned goes on with the result o, a run that raised stays
OnReturn(r, o) ==
    IF r.out.outcome = "raised" THEN r ELSE [r EXCEPT !.out = o]

\* SmartPlug.features: self.sys_info['feature'].split(':')
features(p) ==
    OnReturn(sys_info_item(p, "feature"),
             Returned(split(sys_info_item(p, "feature").out.ret)))

\* feature in self.features, for the run r of self.features
InFeatures(r, feature) ==
    OnReturn(r, Returned(\E i \in 1..Len(r.out.ret) : r.out.ret[i] = feature))

\* SmartBulb.has_emeter returns True, SmartPlug.has_emeter looks for ENE in
\* self.features
has_emeter(self, p) ==
    IF self.class = "SmartBulb"
    THEN NoCall(p, Returned(TRUE))
    ELSE InFeatures(features(p), FEATURE_ENERGY_METER)

\* if not self.has_emeter: return False, for the run h of self.has_emeter
\* and the run q of the rest of the method
WhenMetered(h, q) ==
    IF h.out.outcome = "raised" THEN h
    ELSE IF ~h.out.ret THEN [h EXCEPT !.out = Returned(FALSE)]
    ELSE AndThen(h, q)

\* SmartDevice.get_emeter_realtime
get_emeter_realtime(self, p) ==
    WhenMetered(has_emeter(self, p),
                query_helper(has_emeter(self, p).proto, self.emeter_type,
                             "get_realtime", << >>))

\* key = 'energy_wh' if self.emeter_units else 'energy'
energy_key(self) == IF self.emeter_units THEN "energy_wh" ELSE "energy"

\* {entry[field]: entry[key] for entry in list}
Comprehension(list, field, key) ==
    IF \E i \in 1..Len(list) : field \notin DOMAIN list[i]
    THEN Raised("KeyError", "none", field)
    ELSE IF \E i \in 1..Len(list) : key \notin DOMAIN list[i]
    THEN Raised("KeyError", "none", key)
    ELSE Returned([d \in { list[i][field] : i \in 1..Len(list) } |->
                      LET last == CHOOSE i \in 1..Len(list) :
                                      /\ list[i][field] = d
                                      /\ \A j \in (i + 1)..Len(list) :
                                             list[j][field] /= d
                      IN  list[last][key]])

\* response[key], for the run r that produced response
Subscript(r, key) ==
    IF r.out.outcome = "raised" THEN r
    ELSE IF key \notin DOMAIN r.out.ret
    THEN [r EXCEPT !.out = Raised("KeyError", "none", key)]
    ELSE [r EXCEPT !.out = Returned(r.out.ret[key])]

\* the comprehension over the list the run r returned
Entries(r, field, key) ==
    OnReturn(r, Comprehension(r.out.ret, field, key))

\* the body shared by get_emeter_daily and get_emeter_monthly
emeter_stat(self, p, c, a, list, field) ==
    WhenMetered(has_emeter(self, p),
                Entries(Subscript(query_helper(has_emeter(self, p).proto,
                                               self.emeter_type, c, a),
                                  list),
                        field, energy_key(self)))

\* SmartDevice.get_emeter_daily(year, month)
get_emeter_daily(self, p, year, month) ==
    emeter_stat(self, p, "get_daystat", [month |-> month, year |-> year],
                "day_list", "day")

\* SmartDevice.get_emeter_monthly(year)
get_emeter_monthly(self, p, year) ==
    emeter_stat(self, p, "get_monthstat", [year |-> year],
                "month_list", "month")

\* 'power_mw' if self.emeter_units else 'power'
power_key(self) == IF self.emeter_units THEN "power_mw" ELSE "power"

\* SmartDevice.current_consumption
current_consumption(self, p) ==
    WhenMetered(has_emeter(self, p),
                Subscript(get_emeter_realtime(self, has_emeter(self, p).proto),
                          power_key(self)))

\* the readings of a plug, in ampere, volt, watt and kWh
PlugReadings ==
    [current : {0}, voltage : {125}, power : {0, 33, 1200}, total : {0, 2}]

\* the readings of a bulb, in milliwatt
BulbReadings == [power_mw : {0, 10800, 33000}]

\* the tables of a plug with and without the energy meter
PlugEmeterProtos ==
    { [system |-> [get_sysinfo |-> [feature |-> f, model |-> "HS110(US)"]],
       emeter |->
           [get_realtime |-> r,
            get_daystat |->
                [day_list |->
                    << [year |-> 2016, month |-> 11, day |-> 24, energy |-> 1],
                       [year |-> 2016, month |-> 11, day |-> 25, energy |-> 3]
                    >>],
            get_monthstat |->
                [month_list |->
                    << [year |-> 2016, month |-> 11, energy |-> 4],
                       [year |-> 2016, month |-> 12, energy |-> 6] >>]]] :
          f \in {"TIM:ENE", "TIM"}, r \in PlugReadings }

\* the tables of a bulb
BulbEmeterProtos ==
    { ("system" :> [get_sysinfo |-> [model |-> "LB130(US)"]])
          @@ (SmartBulb.emeter_type :>
                  [get_realtime |-> r,
                   get_daystat |->
                       [day_list |->
                           << [year |-> 2016, month |-> 11, day |-> 24,
                               energy_wh |-> 20],
                              [year |-> 2016, month |-> 11, day |-> 25,
                               energy_wh |-> 32] >>],
                   get_monthstat |->
                       [month_list |->
                           << [year |-> 2016, month |-> 11, energy_wh |-> 32],
                              [year |-> 2016, month |-> 12, energy_wh |-> 16]
                           >>]]) :
          r \in BulbReadings }

EmeterProtos == PlugEmeterProtos \cup BulbEmeterProtos

\* the years and the month callers ask statistics for
StatYears == {1900, 2016}

StatMonth == 11

\* SmartPlug(ip, protocol=FakeTransportProtocol(sysinfo_hs110)) or
\* SmartBulb(ip, protocol=FakeTransportProtocol(sysinfo_lb130))
EmeterInit ==
    /\ CodecIdle
    /\ HelperIdle
    /\ DiscoverIdle
    /\ proto \in EmeterProtos
    /\ op = "none"
    /\ args = << >>
    /\ calls = << >>
    /\ out = [outcome |-> "none", ret |-> << >>, exc |-> NoException]
    /\ lastSwitch = "none"

\* the object the table was handed to
Self == IF SmartPlug.emeter_type \in DOMAIN proto THEN SmartPlug ELSE SmartBulb

GetEmeterRealtime ==
    /\ Done("get_emeter_realtime", << >>, get_emeter_realtime(Self, proto))
    /\ UNCHANGED lastSwitch

GetEmeterDaily ==
    \E year \in StatYears :
        /\ Done("get_emeter_daily", << year, StatMonth >>,
                get_emeter_daily(Self, proto, year, StatMonth))
        /\ UNCHANGED lastSwitch

GetEmeterMonthly ==
    \E year \in StatYears :
        /\ Done("get_emeter_monthly", << year >>,
                get_emeter_monthly(Self, proto, year))
        /\ UNCHANGED lastSwitch

CurrentConsumption ==
    /\ Done("current_consumption", << >>, current_consumption(Self, proto))
    /\ UNCHANGED lastSwitch

\* the load on the device changes: another reading of the same device
LoadChanges ==
    /\ proto' \in EmeterProtos \ {proto}
    /\ DOMAIN proto' = DOMAIN proto
    /\ proto'["system"] = proto["system"]
    /\ UNCHANGED << op, args, calls, out, lastSwitch, notDevice >>

EmeterNext ==
    \/ GetEmeterRealtime
    \/ GetEmeterDaily
    \/ GetEmeterMonthly
    \/ CurrentConsumption
    \/ LoadChanges

SpecEmeter == EmeterInit /\ [][EmeterNext]_vars

(***************************************************************************)
(* A Schedule built on the _query_helper of a SmartDevice.  The device     *)
(* holds a list of rules and answers schedule.get_rules with a mapping     *)
(* that carries the list under rule_list; _query_helper returns that       *)
(* mapping without err_code.                                               *)
(***************************************************************************)
RuleNames == {"morning", "evening", "night"}

\* the rules of at most MaxRules entries a device holds, with distinct
\* names and the ids the device gave them
MaxRules == 2

RuleOf(name) == [name |-> name, id |-> "id-" \o name, enable |-> 1]

RuleLists ==
    LET names == { s \in UNION { [1..k -> RuleNames] : k \in 0..MaxRules } :
                       \A i, j \in DOMAIN s : s[i] = s[j] => i = j }
    IN  { [i \in DOMAIN s |-> RuleOf(s[i])] : s \in names }

ScheduleProtos ==
    { [schedule |-> [get_rules |-> [rule_list |-> rules]]] :
          rules \in RuleLists }

\* the rules callers assign, without name and id
RuleArgs == { [enable |-> e] : e \in {0, 1} }

\* the device adds, replaces and removes a rule of its list
ScheduleProto(p, c, a) ==
    LET rules == p["schedule"]["get_rules"]["rule_list"]
        keep(drop) == SelectSeq(rules, LAMBDA r : r.id /= drop)
    IN  CASE c = "add_rule" ->
                 [p EXCEPT !["schedule"]["get_rules"]["rule_list"] =
                      Append(rules, a @@ [id |-> "id-" \o a.name])]
          [] c = "edit_rule" ->
                 [p EXCEPT !["schedule"]["get_rules"]["rule_list"] =
                      [i \in 1..Len(rules) |->
                          IF rules[i].id = a.id THEN a ELSE rules[i]]]
          [] c = "delete_rule" ->
                 [p EXCEPT !["schedule"]["get_rules"]["rule_list"] =
                      keep(a.id)]
          [] OTHER -> p

\* the response of the device to {"schedule": {c: a}}
ScheduleResponse(p, c, a) ==
    IF c = "get_rules" THEN success("schedule", c, p["schedule"][c])
    ELSE success("schedule", c, << >>)

\* self._query_helper("schedule", c, a)
schedule_query(p, c, a) ==
    [proto |-> ScheduleProto(p, c, a),
     calls |-> << Request("schedule", c, a) >>,
     out |-> Unwrap("schedule", c, ScheduleResponse(p, c, a))]

\* Schedule._get_schedule
get_schedule(p) == schedule_query(p, "get_rules", << >>)

\* Schedule.__iter__ run to its end: the pairs (schedule['name'], schedule)
\* for the elements of self._get_schedule.  Iterating the mapping yields its
\* keys, which are strings, and schedule['name'] on a string raises
\* TypeError; the mapping without a key yields nothing.
iter(p) ==
    LET r == get_schedule(p)
    IN  IF r.out.outcome = "raised" THEN r
        ELSE IF DOMAIN r.out.ret /= {}
        THEN [r EXCEPT !.out =
                 Raised("TypeError", "none",
                        "string indices must be integers")]
        ELSE [r EXCEPT !.out = Returned(<< >>)]

\* the first pair of the iteration whose name is name, 0 without one
Find(pairs, name) ==
    IF \E i \in 1..Len(pairs) : pairs[i][1] = name
    THEN CHOOSE i \in 1..Len(pairs) :
             /\ pairs[i][1] = name
             /\ \A j \in 1..(i - 1) : pairs[j][1] /= name
    ELSE 0

\* Schedule.__contains__
contains(p, name) ==
    LET r == iter(p)
    IN  IF r.out.outcome = "raised" THEN r
        ELSE [r EXCEPT !.out = Returned(Find(r.out.ret, name) /= 0)]

NoScheduleFound(name) == Raised("NoScheduleFound", "none", name)

\* the attributes Schedule.__init__ sets
Attributes == {"_device", "_query_helper"}

\* Schedule.__getitem__
getitem(p, name) ==
    IF name \in Attributes
    THEN NoCall(p, Returned(name))
    ELSE LET r == iter(p)
         IN  IF r.out.outcome = "raised" THEN r
             ELSE IF Find(r.out.ret, name) = 0
             THEN [r EXCEPT !.out = NoScheduleFound(name)]
             ELSE [r EXCEPT !.out =
                      Returned(r.out.ret[Find(r.out.ret, name)][2])]

\* a run whose result the caller drops: the method returns None
Dropped(r) ==
    IF r.out.outcome = "raised" THEN r
    ELSE [r EXCEPT !.out = Returned(None)]

\* Schedule.__setitem__ for the name of a rule
setitem(p, name, rule) ==
    LET named == rule @@ [name |-> name]
        c == contains(p, name)
    IN  IF c.out.outcome = "raised" THEN c
        ELSE IF c.out.ret
        THEN LET g == AndThen(c, getitem(c.proto, name))
             IN  IF g.out.outcome = "raised" THEN g
                 ELSE Dropped(AndThen(g,
                          schedule_query(g.proto, "edit_rule",
                                         named @@ [id |-> g.out.ret.id])))
        ELSE Dropped(AndThen(c, schedule_query(c.proto, "add_rule", named)))

\* Schedule.__delitem__
delitem(p, name) ==
    LET r == iter(p)
    IN  IF r.out.outcome = "raised" THEN r
        ELSE IF Find(r.out.ret, name) = 0
        THEN [r EXCEPT !.out = NoScheduleFound(name)]
        ELSE AndThen(r, schedule_query(r.proto, "delete_rule",
                        [id |-> r.out.ret[Find(r.out.ret, name)][2].id]))

\* Schedule(device, device._query_helper) on a device that holds rules
ScheduleInit ==
    /\ CodecIdle
    /\ HelperIdle
    /\ DiscoverIdle
    /\ proto \in ScheduleProtos
    /\ op = "none"
    /\ args = << >>
    /\ calls = << >>
    /\ out = [outcome |-> "none", ret |-> << >>, exc |-> NoException]
    /\ lastSwitch = "none"

Contains ==
    \E name \in RuleNames :
        /\ Done("__contains__", << name >>, contains(proto, name))
        /\ UNCHANGED lastSwitch

GetItem ==
    \E name \in RuleNames \cup Attributes :
        /\ Done("__getitem__", << name >>, getitem(proto, name))
        /\ UNCHANGED lastSwitch

SetItem ==
    \E name \in RuleNames, rule \in RuleArgs :
        /\ Done("__setitem__", << name, rule >>, setitem(proto, name, rule))
        /\ UNCHANGED lastSwitch

DelItem ==
    \E name \in RuleNames :
        /\ Done("__delitem__", << name >>, delitem(proto, name))
        /\ UNCHANGED lastSwitch

ScheduleNext ==
    \/ Contains
    \/ GetItem
    \/ SetItem
    \/ DelItem

SpecSchedule == ScheduleInit /\ [][ScheduleNext]_vars

(***************************************************************************)
(* Claims about the codec, checked under SpecCodec.                        *)
(***************************************************************************)
\* encrypt has been applied to c_request in this state
Encrypted == cpc = "encrypted" \/ c_how \in {"payload", "whole", "lstrip"}

\* C5 (as stated): for all byte sequences b, decrypt(encrypt(b)) = b.
C5_RoundTripWhole ==
    c_how = "whole" => c_decrypted = c_request

\* C5 (amended): for all byte sequences b, decrypt(encrypt(b)[4:]) = b: decrypt
\* inverts encrypt once the 4-byte length header encrypt prepends is removed.
C5_RoundTripPayload ==
    c_how = "payload" => c_decrypted = c_request

C5_Witness ==
    /\ c_how = "payload"
    /\ Len(c_request) >= 2
    /\ c_decrypted = c_request

\* C6: for every request string d, decrypt(encrypt(d).lstrip(b'\0')) = d.
C6_StripRoundTrip ==
    c_how = "lstrip" => c_decrypted = c_request

\* C7: rolling-key XOR seeded with 171: cipher byte i of encrypt is plaintext
\* byte i XOR cipher byte i-1 (171 for the first), plaintext byte i of decrypt
\* is cipher byte i XOR cipher byte i-1 (171 for the first), for every message.
C7_RollingKey ==
    /\ Encrypted =>
          LET ct == DropFirst(c_encrypted, HeaderLen)
          IN  /\ Len(ct) = Len(c_request)
              /\ \A i \in 1..Len(ct) :
                    ct[i] = Xor(c_request[i], IF i = 1 THEN 171 ELSE ct[i - 1])
    /\ cpc = "decrypted" =>
          /\ Len(c_decrypted) = Len(c_input)
          /\ \A i \in 1..Len(c_input) :
                c_decrypted[i] =
                    Xor(c_input[i], IF i = 1 THEN 171 ELSE c_input[i - 1])

C7_Witness ==
    /\ c_how = "payload"
    /\ Len(c_request) >= 2
    /\ c_request[1] /= c_request[2]
    /\ c_input[2] = Xor(c_request[2], c_input[1])
    /\ c_decrypted[2] = Xor(c_input[2], c_input[1])

CommFailure == qpc = "raised" /\ pending \in {"OSError", "timeout"}

\* the reply did not parse as JSON
Unparsable == qpc = "raised" /\ pending = "ValueError"

\* the reply parsed and lacks the requested target
MissingTarget == qpc = "returned" /\ target \notin DOMAIN response

\* the reply holds a result for the requested command with a status code
HasStatus ==
    /\ qpc = "returned"
    /\ target \in DOMAIN response
    /\ cmd \in DOMAIN response[target]
    /\ "err_code" \in DOMAIN response[target][cmd]

\* C1: when the result of the requested command carries a nonzero err_code,
\* _query_helper raises SmartPlugException and does not return the result.
C1_NonzeroErrCodeRaises ==
    (dpc = "done" /\ HasStatus /\ response[target][cmd]["err_code"] /= 0)
        => (outcome = "raised" /\ exc.type = "SmartPlugException")

\* C2: every path out of query has shut down and closed the socket.
C2_SocketClosed ==
    qpc \in {"returned", "raised"} => sock = "closed"

C10_ReturnedMapping ==
    outcome = "returned" =>
        /\ HasStatus
        /\ "err_code" \notin DOMAIN ret
        /\ LET r == response[target][cmd]
           IN  /\ DOMAIN ret = DOMAIN r \ {"err_code"}
               /\ \A k \in DOMAIN ret : ret[k] = r[k]

C10_Witness ==
    /\ outcome = "returned"
    /\ HasStatus
    /\ "relay_state" \in DOMAIN ret
    /\ DOMAIN response[target][cmd] = {"err_code", "relay_state"}

\* C11: when the reply parsed by query lacks the requested target key,
\* _query_helper raises SmartPlugException, whatever the target and command.
C11_MissingTargetRaises ==
    (dpc = "done" /\ MissingTarget) =>
        /\ outcome = "raised"
        /\ exc.type = "SmartPlugException"
        /\ exc.msg = "No required target in response"

\* a reply for the other target has been answered with the exception
C11_Witness ==
    /\ dpc = "done"
    /\ MissingTarget
    /\ DOMAIN response /= {}
    /\ outcome = "raised"

\* C25: a call of _query_helper starts the transport's query once; when the
\* query raised, _query_helper raises SmartPlugException with that exception
\* as its cause, and the query is not started again.
C25_QueryOnce ==
    [][/\ (qpc' = "connect" /\ qpc /= "connect") =>
              (dpc = "idle" /\ dpc' = "query")
       /\ (dpc' = "done" /\ dpc = "query" /\ qpc = "raised") =>
              /\ outcome' = "raised"
              /\ exc'.type = "SmartPlugException"
              /\ exc'.cause = pending
              /\ pending /= "none"
              /\ UNCHANGED queryVars
       /\ dpc = "done" => UNCHANGED << dpc, queryVars >>]_vars

\* the call ended with the SmartPlugException that wraps a reset connection
C25_Witness ==
    /\ dpc = "done"
    /\ qpc = "raised"
    /\ pending = "OSError"
    /\ outcome = "raised"
    /\ exc.type = "SmartPlugException"
    /\ exc.cause = "OSError"

\* C28: _query_helper ends in one of two ways for every response: it returns
\* a mapping or it raises SmartPlugException.
C28_OnlyTwoOutcomes ==
    dpc = "done" =>
        \/ outcome = "returned"
        \/ outcome = "raised" /\ exc.type = "SmartPlugException"

\* C29: a first read of fewer than 4 bytes does not make the read loop fail
\* on the header: no struct.error comes out of query.
C29_ShortHeaderTolerated ==
    (length = -1 /\ Len(chunk) < HeaderLen) => pending /= "struct.error"

(***************************************************************************)
(* Claims about discover, checked under SpecDiscover.                      *)
(***************************************************************************)
\* C4: a datagram that fails to parse does not end the sweep: every
\* well-formed datagram that arrives after it and before the receive timeout
\* is in the returned list.
C4_BadDatagramSkipped ==
    (vpc = "returned" /\ caught /= "OSError") =>
        \A i \in 1..Len(arrivals) :
            (WellFormed(arrivals[i])
                /\ \E j \in 1..(i - 1) : ~WellFormed(arrivals[j]))
            => \E k \in 1..Len(devices) : devices[k] = Descriptor(arrivals[i])

\* the descriptors returned for a sender
DescriptorsOf(ip) == { k \in 1..Len(devices) : devices[k].ip = ip }

\* the well-formed replies of a sender among the datagrams that arrived
RepliesOf(ip) ==
    { i \in 1..Len(arrivals) : arrivals[i].ip = ip /\ WellFormed(arrivals[i]) }

\* C14: discover returns one descriptor for each device whose reply arrived
\* before the timeout, carrying the address and port of the sender of that
\* reply, and no other descriptor.
C14_OneDescriptorPerReplier ==
    (vpc = "returned" /\ caught /= "OSError") =>
        /\ \A ip \in Senders :
               IF RepliesOf(ip) = {}
               THEN DescriptorsOf(ip) = {}
               ELSE /\ Cardinality(DescriptorsOf(ip)) = 1
                    /\ \A k \in DescriptorsOf(ip) :
                           \E i \in RepliesOf(ip) :
                               devices[k] = Descriptor(arrivals[i])
        /\ \A k \in 1..Len(devices) : devices[k].ip \in Senders

\* C15: discover returns within the timeout plus one second of the call,
\* however many datagrams arrive and whenever they do.
C15_ReturnsWithinTimeout ==
    vpc \in {"recvfrom", "returned"} => elapsed <= DEFAULT_TIMEOUT + 1

\* C30: discover has closed its UDP socket when it returns, after a receive
\* timeout and after an error alike.
C30_DiscoverSocketClosed ==
    vpc = "returned" => usock = "closed"

(***************************************************************************)
(* Claims about the plug, checked under SpecPlug.                          *)
(***************************************************************************)
\* the relay state the device reports
RelayState == proto["system"]["get_sysinfo"]["relay_state"]

\* sys_info and the accessors derived from it
SysInfoReads == {"sys_info", "model", "alias", "is_on", "is_off", "led"}

\* what the accessor is to return when the device reports info
Derived(name, info) ==
    CASE name = "sys_info" -> info
      [] name = "model" -> info["model"]
      [] name = "alias" -> info["alias"]
      [] name = "is_on" -> info["relay_state"] = 1
      [] name = "is_off" -> info["relay_state"] = 0
      [] name = "led" -> info["led_off"] = 0

\* C16: every read of sys_info and of an accessor derived from it hands one
\* new system.get_sysinfo request to the transport and returns what the device
\* reports at that moment, so a change made out-of-band before the read is
\* visible in it and no earlier result is reused.
C16_FreshRead ==
    [][(op' \in SysInfoReads /\ proto' = proto) =>
          /\ calls' = << Request("system", "get_sysinfo", << >>) >>
          /\ out'.outcome = "returned"
          /\ out'.ret = Derived(op', proto'["system"]["get_sysinfo"])]_vars

\* is_on read after the relay was switched on out-of-band
C16_Witness ==
    /\ op = "is_on"
    /\ lastSwitch = "other"
    /\ RelayState = 1
    /\ out.outcome = "returned"
    /\ out.ret = TRUE
    /\ Len(calls) = 1

\* C17: with no other controller switching the relay, is_on is True exactly
\* when the last call was turn_on (relay_state 1) and False when it was
\* turn_off (relay_state 0), and is_off is the negation of is_on.
C17_RelayFollowsLastCall ==
    /\ lastSwitch = "turn_on" => RelayState = 1
    /\ lastSwitch = "turn_off" => RelayState = 0
    /\ (op = "is_on" /\ lastSwitch /= "other") =>
           /\ out.outcome = "returned"
           /\ out.ret = (RelayState = 1)
    /\ (op = "is_off" /\ lastSwitch /= "other") =>
           /\ out.outcome = "returned"
           /\ out.ret = (RelayState /= 1)

\* is_off read after turn_off was the last call
C17_Witness ==
    /\ op = "is_off"
    /\ lastSwitch = "turn_off"
    /\ out.outcome = "returned"
    /\ out.ret = TRUE

(***************************************************************************)
(* Claims about the strip, checked under SpecStrip.                        *)
(***************************************************************************)
\* the children the strip reports
Children == proto["system"]["get_sysinfo"]["children"]

\* the requests of a run that are set_relay_state commands
RelayRequests(cs) == { i \in 1..Len(cs) : cs[i].cmd = "set_relay_state" }

\* C13: turn_on_plug(index) on a strip with 3 children hands the transport
\* one set_relay_state request whose context is the child id of outlet index,
\* and the reported state of every other outlet is what it was before.
C13_TurnOnPlugContext ==
    [][(/\ op' = "turn_on_plug"
        /\ args' \in 1..Len(ChildIds)
        /\ << op, args, calls, out >> /= << op', args', calls', out' >>) =>
          /\ Cardinality(RelayRequests(calls')) = 1
          /\ \A i \in RelayRequests(calls') :
                 /\ "context" \in DOMAIN calls'[i]
                 /\ calls'[i].context = ChildIds[args']
          /\ \A j \in (1..Len(ChildIds)) \ {args'} :
                 Children'[j].state = Children[j].state]_vars

(***************************************************************************)
(* Claims about the bulb, checked under SpecBulb.                          *)
(***************************************************************************)
\* what the device reports
BulbInfo == proto["system"]["get_sysinfo"]

LightState == proto[LightingService]["get_light_state"]

\* the capability flag that gates an accessor
GateOf(name) ==
    CASE name \in {"hsv", "hsv.setter"} -> "is_color"
      [] name \in {"color_temp", "color_temp.setter"} -> "is_variable_color_temp"
      [] name \in {"brightness", "brightness.setter"} -> "is_dimmable"

GatedOps ==
    {"hsv", "hsv.setter", "color_temp", "color_temp.setter", "brightness",
     "brightness.setter"}

\* the operation was an accessor the bulb has the capability for
Capable == op \in GatedOps /\ BulbInfo[GateOf(op)] = 1

\* C12: on a bulb whose capability flag is false the gated getter or setter
\* ends with an error and hands no request to the transport.
C12_GateFailsExplicitly ==
    (op \in GatedOps /\ BulbInfo[GateOf(op)] = 0) =>
        /\ out.outcome = "raised"
        /\ calls = << >>

\* C18: on a dimmable bulb, on or off, brightness read right after brightness
\* was set to b in 0..100 returns b.
C18_BrightnessRoundTrip ==
    [][(/\ op = "brightness.setter"
        /\ op' = "brightness"
        /\ BulbInfo["is_dimmable"] = 1
        /\ args \in 0..100) =>
          /\ out'.outcome = "returned"
          /\ out'.ret = args]_vars

\* round(n / d) of Python 3 for n >= 0: to the nearest integer, a tie to the
\* even one
round(n, d) ==
    LET q == n \div d
        r == n % d
    IN  IF 2 * r < d THEN q
        ELSE IF 2 * r > d THEN q + 1
        ELSE IF q % 2 = 0 THEN q
        ELSE q + 1

\* the transition_light_state requests of a run
LightRequests(cs) ==
    { i \in 1..Len(cs) : cs[i].cmd = "transition_light_state" }

\* C19: the hsv getter returns round(internal * 255 / 100) for the internal
\* brightness in force, and the hsv setter sends round(external * 100 / 255)
\* for the external value given.
C19_HsvRounds ==
    /\ (/\ op = "hsv"
        /\ Capable
        /\ out.outcome = "returned"
        /\ InForce(LightState)["brightness"] \in 0..100) =>
           out.ret[3] = round(InForce(LightState)["brightness"] * 255, 100)
    /\ (op = "hsv.setter" /\ Capable /\ args[3] \in 0..255) =>
           \A i \in LightRequests(calls) :
               calls[i].arg["brightness"] = round(args[3] * 100, 255)

\* the argument of a setter is outside the range the setter accepts
OutOfRange ==
    \/ op = "brightness.setter" /\ args \notin 0..100
    \/ op = "hsv.setter"
           /\ (args[1] \notin 0..360 \/ args[2] \notin 0..100
                   \/ args[3] \notin 0..255)
    \/ op = "color_temp.setter" /\ args \in {1000, 10000}

\* C20: a setter given an argument outside the accepted range ends with an
\* error and hands no set command to the transport.
C20_OutOfRangeRejected ==
    (Capable /\ OutOfRange) =>
        /\ out.outcome = "raised"
        /\ LightRequests(calls) = {}

(***************************************************************************)
(* Claims about the setters of the plug, checked under SpecPlug.           *)
(***************************************************************************)
\* the step is a call on the object
Called == << op, args, calls, out >> /= << op', args', calls', out' >>

\* C23: assigning to time or icon raises NotImplementedError, hands no
\* request to the transport and leaves the device as it was.
C23_UnsupportedSetters ==
    [][(op' \in {"icon.setter", "time.setter"} /\ Called) =>
          /\ out'.outcome = "raised"
          /\ out'.exc.type = "NotImplementedError"
          /\ calls' = << >>
          /\ proto' = proto]_vars

\* the icon was assigned on a plug that had been switched on before
C23_Witness ==
    /\ op = "icon.setter"
    /\ out.outcome = "raised"
    /\ out.exc.type = "NotImplementedError"
    /\ lastSwitch = "turn_on"
    /\ RelayState = 1

\* the strings that are ON and OFF ignoring letter case, among StateValues
OnTexts == {"ON", "on", "On"}

OffTexts == {"OFF", "off", "oFF"}

Accepted(value) == value.type = "str" /\ value.text \in OnTexts \cup OffTexts

\* C24: assigning SmartPlug.state a non-string, or a string that is neither
\* ON nor OFF ignoring case, raises ValueError, hands no request to the
\* transport and leaves the relay as it was; assigning ON or OFF in any case
\* makes the next read of state return "ON" or "OFF".
C24_StateSetter ==
    [][/\ (op' = "state.setter" /\ Called /\ ~Accepted(args')) =>
              /\ out'.outcome = "raised"
              /\ out'.exc.type = "ValueError"
              /\ calls' = << >>
              /\ proto' = proto
       /\ (/\ op = "state.setter"
           /\ Accepted(args)
           /\ lastSwitch /= "other"
           /\ op' = "state") =>
              /\ out'.outcome = "returned"
              /\ out'.ret = IF args.text \in OnTexts THEN "ON" ELSE "OFF"]_vars

\* state read as "OFF" after the relay was switched off through the object
C24_Witness ==
    /\ op = "state"
    /\ lastSwitch = "turn_off"
    /\ out.outcome = "returned"
    /\ out.ret = "OFF"
    /\ Len(calls) = 1

(***************************************************************************)
(* Claims about the index convention of the strip, checked under SpecStrip.*)
(***************************************************************************)
\* the state the device reports for the outlet with the child id
StateOfChild(id) ==
    LET k == CHOOSE j \in 1..Len(Children') : Children'[j].id = id
    IN  Children'[k].state

\* C27: is_on(i) reports the outlet that turn_on_plug(i) and turn_off_plug(i)
\* address, for every index i of an outlet: one index convention.
C27_OneIndexConvention ==
    [][(op' = "is_on" /\ Called /\ args' \in 1..Len(ChildIds)) =>
          /\ out'.outcome = "returned"
          /\ index_to_id(proto', args').out.outcome = "returned"
          /\ out'.ret = (StateOfChild(index_to_id(proto', args').out.ret) = 1)]_vars

(***************************************************************************)
(* Claims about the energy meter, checked under SpecEmeter.                *)
(***************************************************************************)
\* the object reports an energy meter on the device as it is now
Metered ==
    LET h == has_emeter(Self, proto)
    IN  h.out.outcome = "returned" /\ h.out.ret

\* the power the table of the device holds, in milliwatt
PowerMilliwatt ==
    LET reading == proto[Self.emeter_type]["get_realtime"]
    IN  IF Self.emeter_units THEN reading["power_mw"]
        ELSE reading["power"] * 1000

\* C21: every reading get_emeter_realtime returns for a device with an
\* energy meter, plug or bulb, carries both power and power_mw, and
\* power_mw = round(power * 1000).
C21_ReadingNormalized ==
    (op = "get_emeter_realtime" /\ out.outcome = "returned" /\ Metered) =>
        /\ {"power", "power_mw"} \subseteq DOMAIN out.ret
        /\ out.ret["power_mw"] = round(out.ret["power"] * 1000, 1)

\* C22: for every device with an energy meter, plug or bulb,
\* current_consumption returns the power of the device in watt: a thousand
\* times the result is the power in milliwatt.
C22_ConsumptionInWatt ==
    [][(op' = "current_consumption" /\ Called /\ Metered') =>
          /\ out'.outcome = "returned"
          /\ out'.ret * 1000 = PowerMilliwatt']_vars

(***************************************************************************)
(* Claims about the Schedule, checked under SpecSchedule.                  *)
(***************************************************************************)
\* the list of rules the device holds
RulesOnDevice == proto["schedule"]["get_rules"]["rule_list"]

\* the requests of a run that carry the command c
RequestsOf(cs, c) == { k \in 1..Len(cs) : cs[k].cmd = c }

\* C26: an assignment schedule[name] = rule sends edit_rule with the id of
\* the rule the device holds under that name when there is one, and sends
\* add_rule when there is none.
C26_EditOrAdd ==
    [][(op' = "__setitem__" /\ Called) =>
          LET name == args'[1]
              held == { i \in 1..Len(RulesOnDevice) :
                            RulesOnDevice[i].name = name }
          IN  IF held /= {}
              THEN \E i \in held :
                       \E k \in RequestsOf(calls', "edit_rule") :
                           calls'[k].arg.id = RulesOnDevice[i].id
              ELSE RequestsOf(calls', "add_rule") /= {}]_vars

====
